---- MODULE Spec2Model ----
(***************************************************************************)
(* The SSH session relay of src/server.js: one WebSocket connection        *)
(* (wss.on('connection')), its closure variables ssh, stream and alive,    *)
(* the async 'message' handler with its two suspension points, the 'close' *)
(* handler, and the callbacks registered on the SSH clients and shell      *)
(* streams the session creates; and the CRUD operations on servers.json of  *)
(* src/server.js (REST handlers) and src/store.js.                         *)
(*                                                                         *)
(* Environment (libraries ws and ssh2, the remote host):                   *)
(*  - ws keeps emitting 'message' while the socket is CLOSING (the relay   *)
(*    called ws.close() but the closing handshake is not finished); after  *)
(*    the 'close' event no message is emitted.  ws.close() on a socket     *)
(*    that is not OPEN is a no-op; ws.send() on one sends nothing.         *)
(*  - an SSH client on which end() was requested emits no 'ready'; a reply *)
(*    to a shell request that was already in flight may still arrive.      *)
(***************************************************************************)
EXTENDS Integers, Sequences, FiniteSets, TLC

\* ---------------------------------------------------------------- bounds
MaxFrames == 2      \* client frames received on the connection
MaxData == 1        \* output chunks emitted by the remote shells
MaxSessionFrames == 3   \* frames of a session that follows the protocol
MaxSessionData == 2     \* output chunks in such a session

\* ------------------------------------------------------- wire vocabulary
HostA == "10.0.0.2"
HostB == "10.0.0.9"
T1 == [id |-> "t1", host |-> HostA, username |-> "ada", port |-> 22]
T2 == [id |-> "t2", host |-> HostB, username |-> "ada", port |-> 22]

\* The contents of servers.json the relay may find.
Stores == {<< >>, <<T1>>, <<T1, T2>>}
\* ALLOWED_SSH_HOSTS after split/trim/filter.
AllowLists == {{}, {HostA}}

\* Raw client frames (the text of the frame).
FGarbage == "ls"
FNull == "null"
FResize == "{\"type\":\"resize\",\"rows\":50,\"cols\":200}"
FOther == "{\"type\":\"other\"}"
FResizeBad == "{\"type\":\"resize\"}"
FHsT1 == "{\"serverId\":\"t1\",\"cols\":120,\"rows\":40,\"auth\":{\"password\":\"p\"},\"token\":\"<valid>\"}"
FHsT1NoTok == "{\"serverId\":\"t1\",\"cols\":120,\"rows\":40,\"auth\":{\"password\":\"p\"}}"
FHsT1BadTok == "{\"serverId\":\"t1\",\"cols\":120,\"rows\":40,\"auth\":{\"password\":\"p\"},\"token\":\"<forged>\"}"
FHsT2 == "{\"serverId\":\"t2\",\"cols\":120,\"rows\":40,\"auth\":{\"password\":\"p\"},\"token\":\"<valid>\"}"
FHsMissing == "{\"serverId\":\"missing\",\"cols\":120,\"rows\":40,\"auth\":{\"password\":\"p\"},\"token\":\"<valid>\"}"

\* Handshakes for t1 with cols zero, and with rows absent.
FHsZeroCols == "{\"serverId\":\"t1\",\"cols\":0,\"rows\":40,\"auth\":{\"password\":\"p\"},\"token\":\"<valid>\"}"
FHsNoRows == "{\"serverId\":\"t1\",\"cols\":120,\"auth\":{\"password\":\"p\"},\"token\":\"<valid>\"}"

\* Handshakes without a valid token for t2 and for an id that is not in the store.
FHsT2BadTok == "{\"serverId\":\"t2\",\"cols\":120,\"rows\":40,\"auth\":{\"password\":\"p\"},\"token\":\"<forged>\"}"
FHsMissingNoTok == "{\"serverId\":\"missing\",\"cols\":120,\"rows\":40,\"auth\":{\"password\":\"p\"}}"

Frames == {FGarbage, FNull, FResize, FOther, FHsT1, FHsT1NoTok, FHsT1BadTok, FHsT2, FHsMissing}

Undefined == "undefined"

\* hasDims: rows and cols are present and are numbers.
ParsedHs(sid, tok) ==
    [ok |-> TRUE, kind |-> "object", type |-> Undefined, serverId |-> sid,
     token |-> tok, rows |-> 40, cols |-> 120, hasDims |-> TRUE]

\* JSON.parse(raw.toString()): ok = FALSE when it throws.
JSONParse(raw) ==
    CASE raw = FGarbage ->
           [ok |-> FALSE, kind |-> Undefined, type |-> Undefined, serverId |-> Undefined,
            token |-> Undefined, rows |-> 0, cols |-> 0, hasDims |-> FALSE]
      [] raw = FNull ->
           [ok |-> TRUE, kind |-> "null", type |-> Undefined, serverId |-> Undefined,
            token |-> Undefined, rows |-> 0, cols |-> 0, hasDims |-> FALSE]
      [] raw = FResize ->
           [ok |-> TRUE, kind |-> "object", type |-> "resize", serverId |-> Undefined,
            token |-> Undefined, rows |-> 50, cols |-> 200, hasDims |-> TRUE]
      [] raw = FOther ->
           [ok |-> TRUE, kind |-> "object", type |-> "other", serverId |-> Undefined,
            token |-> Undefined, rows |-> 0, cols |-> 0, hasDims |-> FALSE]
      [] raw = FResizeBad ->
           [ok |-> TRUE, kind |-> "object", type |-> "resize", serverId |-> Undefined,
            token |-> Undefined, rows |-> 0, cols |-> 0, hasDims |-> FALSE]
      [] raw = FHsT1 -> ParsedHs("t1", "<valid>")
      [] raw = FHsT1NoTok -> ParsedHs("t1", Undefined)
      [] raw = FHsT1BadTok -> ParsedHs("t1", "<forged>")
      [] raw = FHsT2 -> ParsedHs("t2", "<valid>")
      [] raw = FHsMissing -> ParsedHs("missing", "<valid>")
      [] raw = FHsT2BadTok -> ParsedHs("t2", "<forged>")
      [] raw = FHsMissingNoTok -> ParsedHs("missing", Undefined)
      [] raw = FHsZeroCols -> [ParsedHs("t1", "<valid>") EXCEPT !.cols = 0]
      [] raw = FHsNoRows -> [ParsedHs("t1", "<valid>") EXCEPT !.rows = -1]

\* ------------------------------------------------------------------ state
VARIABLES
    USE_AUTH,   \* process.env.USE_AUTH !== 'false'
    ALLOWED,    \* the host allow-list
    store,      \* the target list held in servers.json
    storeFile,  \* servers.json: "ok" (a JSON array), "empty", "nonjson", "unreadable"
    reqs,       \* the REST requests of src/server.js in flight
    nOps,       \* CRUD operations started so far
    tmpFile,    \* servers.json.tmp
    answered,   \* the outcomes of the CRUD operations, in order
    ssh,        \* closure variable ssh: 0 (undefined) or the id of an SSH client
    stream,     \* closure variable stream: 0 (undefined) or the id of a shell stream
    alive,      \* closure variable alive
    wsState,    \* ws.readyState: "OPEN", "CLOSING", "CLOSED"
    closeInfo,  \* <<code, reason>> of the ws.close() call that took effect
    h,          \* one record per received frame: its 'message' handler invocation
    conn,       \* the SSH clients created, keyed by the frame whose handler created them
    shellLog,   \* the calls made on shell streams (write, setWindow), in order
    wsOut,      \* the ws.send() calls made, in order
    nData,      \* output chunks the remote shells have emitted so far
    wsBuffered, \* shell output handed to ws.send() and not yet flushed to the client
    atClose     \* conn as it was when the 'close' handler ran

vars == <<USE_AUTH, ALLOWED, store, storeFile, reqs, nOps, tmpFile, answered, ssh, stream, alive,
          wsState, closeInfo, h, conn, shellLog, wsOut, nData, wsBuffered, atClose>>

Ids == 1..MaxFrames

NoArgs == [term |-> "", cols |-> 0, rows |-> 0]

NoConn == [st |-> "absent", ended |-> FALSE, shTarget |-> 0, sh |-> "none", shArgs |-> NoArgs]

NoClose == <<0, "">>

\* A session just accepted: wss.on('connection') has run.
InitSession ==
    /\ reqs = << >>
    /\ nOps = 0
    /\ tmpFile = [exists |-> FALSE, full |-> FALSE, list |-> << >>]
    /\ answered = << >>
    /\ wsBuffered = 0
    /\ ssh = 0
    /\ stream = 0
    /\ alive = TRUE
    /\ wsState = "OPEN"
    /\ closeInfo = NoClose
    /\ h = << >>
    /\ conn = [c \in Ids |-> NoConn]
    /\ shellLog = << >>
    /\ wsOut = << >>
    /\ nData = 0
    /\ atClose = << >>

Init ==
    /\ USE_AUTH \in BOOLEAN
    /\ ALLOWED \in AllowLists
    /\ store \in Stores
    /\ storeFile = "ok"
    /\ InitSession


\* ------------------------------------------------------- library effects
\* ws.close(code, reason): takes effect only on an OPEN socket.
WsCloseState(st) == IF st = "OPEN" THEN "CLOSING" ELSE st

WsCloseInfo(st, info, code, reason) == IF st = "OPEN" THEN <<code, reason>> ELSE info

\* ws.close() without arguments: the peer sees status 1005 (no status).
NoStatus == <<1005, "">>

\* jsonwebtoken.verify(t, JWT_SECRET) returns (TRUE) or throws (FALSE).
JwtVerify(t) == t = "<valid>"

\* ------------------------------------------------------------ the relay
\* A relay that never checks the token.
AuthNeverEnforced == FALSE

\* if (USE_AUTH)
AuthEnforced == USE_AUTH

\* if (!ssh)
IsFirstFrame(s) == s = 0

\* const t = cfg.token; if (!t) throw ...   (cfg.token on null throws as well)
TokenMissing(cfg) == cfg.kind = "null" \/ cfg.token = Undefined

\* readServers(): fs.readFile rejects when the file cannot be read; nothing
\* catches that.
ReadThrows == storeFile = "unreadable"

\* readServers(): the parsed file; content that is not JSON gives [].
ReadServers == IF storeFile = "ok" THEN store ELSE << >>

\* servers.find(s => s.id === cfg.serverId): the callback dereferences cfg for the
\* first element it visits, and throws a TypeError when cfg is null.
FindThrows(servers, cfg) == Len(servers) > 0 /\ cfg.kind = "null"

FindSrv(servers, cfg) ==
    LET m == {k \in 1..Len(servers) : servers[k].id = cfg.serverId}
    IN IF m = {} THEN 0 ELSE CHOOSE k \in m : \A j \in m : k <= j

\* A relay that admits every host.
AssertAllowedHostAny(host) == TRUE

\* assertAllowedHost(host) returns (TRUE) or throws (FALSE).
AssertAllowedHost(host) == ALLOWED = {} \/ host \in ALLOWED

\* A relay that takes every JSON object for a control frame.
IsResizeAnyObject(msg, st) == msg.ok /\ msg.kind = "object" /\ st # 0

\* msg.type === 'resize' && stream   (msg.type on null throws into the empty catch)
IsResize(msg, st) == msg.ok /\ msg.kind = "object" /\ msg.type = "resize" /\ st # 0

\* A relay that passes the pixel sizes the other way round.
SetWindowArgsSwapped(msg) ==
    IF msg.hasDims
    THEN <<msg.rows, msg.cols, msg.rows * 16, msg.cols * 8>>
    ELSE <<Undefined, Undefined, "NaN", "NaN">>

\* stream.setWindow(msg.rows, msg.cols, msg.cols * 8, msg.rows * 16): nothing
\* looks at rows and cols first, so absent ones go out as undefined and NaN.
SetWindowArgs(msg) ==
    IF msg.hasDims
    THEN <<msg.rows, msg.cols, msg.cols * 8, msg.rows * 16>>
    ELSE <<Undefined, Undefined, "NaN", "NaN">>

\* A handler that runs the newest call ahead of the ones already made.
ShellCallFirst(log, e) == <<e>> \o log

\* The handler makes the call before it returns: calls go out in frame order.
ShellCall(log, e) == Append(log, e)

\* ws.send(d) is called inside the 'data' callback, in event order.
WsSend(out, e) == Append(out, e)

\* ws.send() queues the message on an OPEN socket only.
Queued(st, n) == IF st = "OPEN" THEN n + 1 ELSE n

\* An error handler that leaves the socket open.
ErrorLeavesOpen(st) == st

\* try { ws.close(); } catch {}   in ssh.on('error')
ErrorCloses(st) == WsCloseState(st)

\* Buffer.from(`\r\n[SSH ERROR] ${e.message}\r\n`)
ErrLine(msg) == <<"\r\n[SSH ERROR] ", msg, "\r\n">>

\* A relay that writes without looking at stream.
CanWriteAlways(st) == TRUE

\* if (stream) stream.write(raw)
CanWrite(st) == st # 0

\* A pump that sends without looking at alive.
PumpGateOpen(a) == TRUE

\* alive && ws.send(d)
PumpGate(a) == a

Finish(i, o) == [h EXCEPT ![i].pc = "done", ![i].out = o]

\* ws.close(1008, 'JWT invalid')
JwtReject == <<1008, "JWT invalid">>

\* A relay that looks the target up before it answers a bad token.
TokenRejectAfterLookup(cfg) ==
    IF \A k \in 1..Len(store) : store[k].id # cfg.serverId
    THEN <<1008, "Server necunoscut">>
    ELSE JwtReject

\* catch { ws.close(1008, 'JWT invalid'); return; }: the same call whatever
\* the handshake names.
TokenReject(cfg) == JwtReject

\* ws.close(1008, 'Primul mesaj trebuie sa fie JSON') (the source spells it "să")
NotJsonReject == <<1008, "Primul mesaj trebuie sa fie JSON">>

\* The rejection paths of the first-frame branch: ws.close(1008, reason); return.
Reject(i, o, call) ==
    /\ h' = [Finish(i, o) EXCEPT ![i].call = call]
    /\ wsState' = WsCloseState(wsState)
    /\ closeInfo' = WsCloseInfo(wsState, closeInfo, call[1], call[2])
    /\ UNCHANGED <<ssh, stream, conn, shellLog>>

\* ws.on('message'), up to its first await or its return.
Receive(raw) ==
    /\ wsState \in {"OPEN", "CLOSING"}
    /\ LET i == Len(h) + 1
           cfg == JSONParse(raw)
           br == IF IsFirstFrame(ssh) THEN "first"
                 ELSE IF stream = 0 THEN "dialing" ELSE "ready"
           new(pc, o, call) == Append(h, [raw |-> raw, br |-> br, pc |-> pc, out |-> o,
                                          call |-> call, late |-> wsState # "OPEN"])
       IN IF IsFirstFrame(ssh)
          THEN /\ UNCHANGED <<ssh, stream, conn, shellLog>>
               /\ IF ~cfg.ok
                  THEN /\ h' = new("done", "notjson", NotJsonReject)
                       /\ wsState' = WsCloseState(wsState)
                       /\ closeInfo' = WsCloseInfo(wsState, closeInfo,
                                                   NotJsonReject[1], NotJsonReject[2])
                  ELSE IF AuthEnforced
                  THEN IF TokenMissing(cfg)
                       THEN /\ h' = new("done", "jwt", TokenReject(cfg))
                            /\ wsState' = WsCloseState(wsState)
                            /\ closeInfo' = WsCloseInfo(wsState, closeInfo,
                                                        TokenReject(cfg)[1], TokenReject(cfg)[2])
                       ELSE /\ h' = new("verify", "pending", NoClose)
                            /\ UNCHANGED <<wsState, closeInfo>>
                  ELSE /\ h' = new("read", "pending", NoClose)
                       /\ UNCHANGED <<wsState, closeInfo>>
          ELSE /\ UNCHANGED <<ssh, stream, conn, wsState, closeInfo>>
               /\ IF IsResize(cfg, stream)
                  THEN /\ h' = new("done", "resize", NoClose)
                       /\ shellLog' = ShellCall(shellLog,
                              [op |-> "setWindow", on |-> stream, frame |-> i,
                               data |-> SetWindowArgs(cfg)])
                  ELSE IF CanWrite(stream)
                  THEN /\ h' = new("done", "write", NoClose)
                       /\ shellLog' = ShellCall(shellLog,
                              [op |-> "write", on |-> stream, frame |-> i, data |-> raw])
                  ELSE /\ h' = new("done", "drop", NoClose)
                       /\ UNCHANGED shellLog
    /\ UNCHANGED <<USE_AUTH, ALLOWED, store, storeFile, reqs, nOps, tmpFile, answered, alive, wsOut, nData,
                   wsBuffered, atClose>>

\* A frame from any client.
ClientFrame(raw) ==
    /\ Len(h) < MaxFrames
    /\ Receive(raw)

\* The handler resumes after `await import('jsonwebtoken')`: verify, then either
\* reject or go on to `await readServers()`.
HandlerVerify(i) ==
    /\ i \in 1..Len(h)
    /\ h[i].pc = "verify"
    /\ IF JwtVerify(JSONParse(h[i].raw).token)
       THEN /\ h' = [h EXCEPT ![i].pc = "read"]
            /\ UNCHANGED <<wsState, closeInfo, ssh, stream, conn, shellLog>>
       ELSE Reject(i, "jwt", TokenReject(JSONParse(h[i].raw)))
    /\ UNCHANGED <<USE_AUTH, ALLOWED, store, storeFile, reqs, nOps, tmpFile, answered, alive, wsOut, nData,
                   wsBuffered, atClose>>

\* The handler resumes after `await readServers()`: lookup, admission, dial.
HandlerRead(i) ==
    /\ i \in 1..Len(h)
    /\ h[i].pc = "read"
    /\ LET cfg == JSONParse(h[i].raw)
           servers == ReadServers
           k == FindSrv(servers, cfg)
       IN IF ReadThrows \/ FindThrows(servers, cfg)
          THEN /\ h' = Finish(i, "threw")
               /\ UNCHANGED <<wsState, closeInfo, ssh, stream, conn, shellLog>>
          ELSE IF k = 0
          THEN Reject(i, "unknown", <<1008, "Server necunoscut">>)
          ELSE IF ~AssertAllowedHost(servers[k].host)
          THEN Reject(i, "denied", <<1008, "Host nu este permis">>)
          ELSE /\ h' = Finish(i, "dial")
               /\ ssh' = i
               /\ conn' = [conn EXCEPT ![i] = [NoConn EXCEPT !.st = "connecting"]]
               /\ UNCHANGED <<wsState, closeInfo, stream, shellLog>>
    /\ UNCHANGED <<USE_AUTH, ALLOWED, store, storeFile, reqs, nOps, tmpFile, answered, alive, wsOut, nData,
                   wsBuffered, atClose>>

\* x || d on a number: zero and undefined (-1 here, an absent property) give d.
OrElse(x, d) == IF x = 0 \/ x = -1 THEN d ELSE x

\* A relay that falls back to 80x24 as a whole when either size is missing.
ShellArgsCoupled(cfg) ==
    IF cfg.cols = 0 \/ cfg.cols = -1 \/ cfg.rows = 0 \/ cfg.rows = -1
    THEN [term |-> "xterm-256color", cols |-> 80, rows |-> 24]
    ELSE [term |-> "xterm-256color", cols |-> cfg.cols, rows |-> cfg.rows]

\* { term: 'xterm-256color', cols: cfg.cols || 80, rows: cfg.rows || 24 }
ShellArgs(cfg) ==
    [term |-> "xterm-256color", cols |-> OrElse(cfg.cols, 80), rows |-> OrElse(cfg.rows, 24)]

\* ssh.on('ready'): requests a shell on the client the variable ssh names now.
SshReady(c) ==
    /\ conn[c].st = "connecting"
    /\ ~conn[c].ended
    /\ conn' = [conn EXCEPT ![c].st = "ready", ![c].shTarget = ssh, ![c].sh = "pending",
                            ![c].shArgs = ShellArgs(JSONParse(h[c].raw))]
    /\ UNCHANGED <<USE_AUTH, ALLOWED, store, storeFile, reqs, nOps, tmpFile, answered, ssh, stream, alive, wsState, closeInfo,
                   h, shellLog, wsOut, nData, wsBuffered, atClose>>

\* The shell callback with a stream: store it and attach the pumps.
ShellGranted(c) ==
    /\ conn[c].sh = "pending"
    /\ conn[conn[c].shTarget].st = "ready"
    /\ stream' = c
    /\ conn' = [conn EXCEPT ![c].sh = "open"]
    /\ UNCHANGED <<USE_AUTH, ALLOWED, store, storeFile, reqs, nOps, tmpFile, answered, ssh, alive, wsState, closeInfo,
                   h, shellLog, wsOut, nData, wsBuffered, atClose>>

\* The shell callback with an error: ws.close(1011, `PTY error: ...`).
ShellDenied(c) ==
    /\ conn[c].sh = "pending"
    /\ conn' = [conn EXCEPT ![c].sh = "denied"]
    /\ wsState' = WsCloseState(wsState)
    /\ closeInfo' = WsCloseInfo(wsState, closeInfo, 1011, "PTY error")
    /\ UNCHANGED <<USE_AUTH, ALLOWED, store, storeFile, reqs, nOps, tmpFile, answered, ssh, stream, alive,
                   h, shellLog, wsOut, nData, wsBuffered, atClose>>

\* ssh.on('error'): one diagnostic line, then ws.close().
SshError(c) ==
    /\ conn[c].st \in {"connecting", "ready"}
    /\ ~conn[c].ended
    /\ conn' = [conn EXCEPT ![c].st = "error"]
    /\ wsOut' = WsSend(wsOut, [kind |-> "err", id |-> c, st |-> wsState,
                                line |-> ErrLine("e")])
    /\ wsState' = ErrorCloses(wsState)
    /\ closeInfo' = IF wsState' # wsState THEN NoStatus ELSE closeInfo
    /\ UNCHANGED <<USE_AUTH, ALLOWED, store, storeFile, reqs, nOps, tmpFile, answered, ssh, stream, alive,
                   h, shellLog, nData, wsBuffered, atClose>>

\* stream.on('data') and stream.stderr.on('data'): d => alive && ws.send(d)
Emit(c) ==
    /\ conn[c].sh \in {"open", "closing"}
    /\ conn[conn[c].shTarget].st = "ready"
    /\ nData' = nData + 1
    /\ wsOut' = IF PumpGate(alive)
                THEN WsSend(wsOut, [kind |-> "data", id |-> nData + 1, st |-> wsState])
                ELSE wsOut
    /\ wsBuffered' = IF PumpGate(alive) THEN Queued(wsState, wsBuffered) ELSE wsBuffered
    /\ UNCHANGED <<USE_AUTH, ALLOWED, store, storeFile, reqs, nOps, tmpFile, answered, ssh, stream, alive, wsState, closeInfo,
                   h, conn, shellLog, atClose>>

\* A chunk of shell output arrives.
StreamData(c) ==
    /\ nData < MaxData
    /\ Emit(c)

\* The client's socket takes one queued message.
WsDrain ==
    /\ wsState # "CLOSED"
    /\ wsBuffered > 0
    /\ wsBuffered' = wsBuffered - 1
    /\ UNCHANGED <<USE_AUTH, ALLOWED, store, storeFile, reqs, nOps, tmpFile, answered, ssh, stream, alive, wsState,
                   closeInfo, h, conn, shellLog, wsOut, nData, atClose>>

\* stream.on('close'): ws.close()
StreamClose(c) ==
    /\ conn[c].sh \in {"open", "closing"}
    /\ conn' = [conn EXCEPT ![c].sh = "closed"]
    /\ wsState' = WsCloseState(wsState)
    /\ closeInfo' = WsCloseInfo(wsState, closeInfo, NoStatus[1], NoStatus[2])
    /\ UNCHANGED <<USE_AUTH, ALLOWED, store, storeFile, reqs, nOps, tmpFile, answered, ssh, stream, alive,
                   h, shellLog, wsOut, nData, wsBuffered, atClose>>

\* stream?.close()
StreamCloseCall(cn, st) ==
    IF st # 0 /\ cn[st].sh = "open" THEN [cn EXCEPT ![st].sh = "closing"] ELSE cn

\* ssh?.end()
SshEndCall(cn, s) == IF s # 0 THEN [cn EXCEPT ![s].ended = TRUE] ELSE cn

\* ws.on('close'): the client closed, the transport dropped, or the closing
\* handshake the relay started has finished.
ClientClose ==
    /\ wsState # "CLOSED"
    /\ wsState' = "CLOSED"
    /\ alive' = FALSE
    /\ conn' = SshEndCall(StreamCloseCall(conn, stream), ssh)
    /\ atClose' = conn
    /\ wsBuffered' = 0
    /\ UNCHANGED <<USE_AUTH, ALLOWED, store, storeFile, reqs, nOps, tmpFile, answered, ssh, stream, closeInfo,
                   h, shellLog, wsOut, nData>>

Next ==
    \/ \E raw \in Frames : ClientFrame(raw)
    \/ \E i \in Ids : HandlerVerify(i)
    \/ \E i \in Ids : HandlerRead(i)
    \/ \E c \in Ids : SshReady(c)
    \/ \E c \in Ids : ShellGranted(c)
    \/ \E c \in Ids : ShellDenied(c)
    \/ \E c \in Ids : SshError(c)
    \/ \E c \in Ids : StreamData(c)
    \/ \E c \in Ids : StreamClose(c)
    \/ WsDrain
    \/ ClientClose

Spec == Init /\ [][Next]_vars

\* ---------------------------------------------- a session that follows the
\* wire protocol: one handshake, then input and resize frames; servers.json may
\* be in any condition.
SessionHandshakes == {FHsT1, FHsZeroCols, FHsNoRows}

SessionFrames == SessionHandshakes \cup {FGarbage, FResize, FResizeBad, FOther}

SessionIds == 1..MaxSessionFrames

InitProtocol ==
    /\ USE_AUTH \in BOOLEAN
    /\ ALLOWED \in AllowLists
    /\ store = <<T1>>
    /\ storeFile \in {"ok", "nonjson", "unreadable"}
    /\ InitSession

ProtocolFrame(raw) ==
    /\ Len(h) < MaxSessionFrames
    /\ (raw \in SessionHandshakes) = (Len(h) = 0)
    /\ Receive(raw)

ProtocolData(c) ==
    /\ nData < MaxSessionData
    /\ Emit(c)

NextProtocol ==
    \/ \E raw \in SessionFrames : ProtocolFrame(raw)
    \/ \E i \in SessionIds : HandlerVerify(i)
    \/ \E i \in SessionIds : HandlerRead(i)
    \/ \E c \in Ids : SshReady(c)
    \/ \E c \in Ids : ShellGranted(c)
    \/ \E c \in Ids : ShellDenied(c)
    \/ \E c \in Ids : SshError(c)
    \/ \E c \in Ids : ProtocolData(c)
    \/ \E c \in Ids : StreamClose(c)
    \/ WsDrain
    \/ ClientClose

SpecProtocol == InitProtocol /\ [][NextProtocol]_vars

\* ------------------------------------- a session with auth enforced, whose
\* handshakes name various targets with and without a valid token.
AuthFrames == {FHsT1, FHsT1BadTok, FHsT1NoTok, FHsT2BadTok, FHsMissingNoTok}

InitAuth ==
    /\ USE_AUTH = TRUE
    /\ ALLOWED \in AllowLists
    /\ store \in Stores
    /\ storeFile = "ok"
    /\ InitSession

NextAuth ==
    \/ \E raw \in AuthFrames : ClientFrame(raw)
    \/ \E i \in Ids : HandlerVerify(i)
    \/ \E i \in Ids : HandlerRead(i)
    \/ \E c \in Ids : SshReady(c)
    \/ \E c \in Ids : ShellGranted(c)
    \/ \E c \in Ids : ShellDenied(c)
    \/ \E c \in Ids : SshError(c)
    \/ \E c \in Ids : StreamData(c)
    \/ \E c \in Ids : StreamClose(c)
    \/ WsDrain
    \/ ClientClose

SpecAuth == InitAuth /\ [][NextAuth]_vars

\* ------------------------------------------------------------ vocabulary
\* The SSH clients the session has created (connect() was called on them).
Opened == {c \in Ids : conn[c].st # "absent"}

\* Every 'message' handler invocation has returned.
HandlersDone == \A i \in 1..Len(h) : h[i].pc = "done"

\* A parsed frame that is a Handshake: a JSON object naming a target.
IsHandshake(cfg) == cfg.ok /\ cfg.kind = "object" /\ cfg.serverId # Undefined

\* A parsed frame that is a Resize.
IsResizeFrame(cfg) == cfg.ok /\ cfg.kind = "object" /\ cfg.type = "resize"

LogIdx == 1..Len(shellLog)

\* ------------------------------------------------------------------ C1
\* C1: for an accepted session exactly one SSH connection is opened, and once
\* the client transport is closed and every handler has returned, every opened
\* connection is closed (end() was requested on it, or it failed).
C1_ExactlyOneSsh ==
    /\ Cardinality(Opened) <= 1
    /\ (wsState = "CLOSED" /\ HandlersDone)
          => \A c \in Opened : conn[c].ended \/ conn[c].st = "error"

\* ------------------------------------------------------------------ C2
\* C2: every write on a shell stream is made on a granted stream and carries a
\* frame that was received in Ready; a frame received in AwaitingHandshake or
\* Dialing is never written, at once or later.
C2_NoBytesBeforeReady ==
    \A k \in LogIdx :
        shellLog[k].op = "write"
            => /\ h[shellLog[k].frame].br = "ready"
               /\ shellLog[k].on # 0
               /\ conn[shellLog[k].on].sh \in {"open", "closing", "closed"}

\* A frame received in Dialing was dropped and the shell was granted afterwards.
C2_Witness ==
    /\ stream # 0
    /\ \E i \in 1..Len(h) : h[i].br = "dialing" /\ h[i].out = "drop"

\* ------------------------------------------------------------------ C3
\* C3: one Handshake is accepted per session; a later Handshake frame neither
\* starts another dial nor is written to the shell.
C3_SingleHandshake ==
    /\ Cardinality(Opened) <= 1
    /\ \A k \in LogIdx :
          shellLog[k].op = "write" => ~IsHandshake(JSONParse(shellLog[k].data))

\* ------------------------------------------------------------------ C4
\* The frames the session received after its SSH client was created, in the
\* given phases, that are not Resize frames.
NonResizeIn(phases) ==
    {i \in 1..Len(h) : h[i].br \in phases /\ ~IsResizeFrame(JSONParse(h[i].raw))}

Written(i) ==
    \E k \in LogIdx : /\ shellLog[k].frame = i
                      /\ shellLog[k].op = "write"
                      /\ shellLog[k].data = h[i].raw

\* C4 as claimed: every non-resize frame received in Dialing or Ready is
\* written to the shell byte-identical.
C4_AllPostHandshakeForwarded == \A i \in NonResizeIn({"dialing", "ready"}) : Written(i)

\* C4 as amended: every non-resize frame received in Ready (a shell stream is
\* stored in the session) is passed byte-identical to the write of the stream
\* stored at that moment, and causes no window change.
C4_ReadyForwarded ==
    \A i \in NonResizeIn({"ready"}) :
        /\ Written(i)
        /\ \A k \in LogIdx : shellLog[k].frame = i
              => shellLog[k].op = "write" /\ shellLog[k].on # 0

\* The text frame {"type":"other"} was received in Ready and written.
C4_Witness == \E i \in NonResizeIn({"ready"}) : h[i].raw = FOther /\ Written(i)

\* ------------------------------------------------------------------ C5
\* C5: no shell output (stdout or stderr) is sent on the client transport once
\* its close was observed.
C5_NoSendAfterClose ==
    /\ alive = (wsState # "CLOSED")
    /\ \A k \in 1..Len(wsOut) : wsOut[k].kind = "data" => wsOut[k].st # "CLOSED"

DataSent == {k \in 1..Len(wsOut) : wsOut[k].kind = "data"}

\* The shell emitted a chunk after the close was observed, and it was dropped.
C5_Witness == ~alive /\ nData > Cardinality(DataSent)

\* ------------------------------------------------------------------ C6
\* C6: once the client transport is closed and every handler has returned (the
\* relay has nothing left to run for this session), end() has been requested on
\* every SSH connection the session created.
C6_ClosingReachesClosed ==
    (wsState = "CLOSED" /\ HandlersDone) => \A c \in Opened : conn[c].ended

\* ------------------------------------------------------------------ C7
\* A dial in flight: connect() issued, shell not yet granted.
InFlight(cn, c) == cn[c].st = "connecting" \/ cn[c].sh = "pending"

\* C7: for a connection whose dial was in flight when the client close was
\* observed, no shell is requested and no shell stream is stored afterwards.
C7_DialResultDiscarded ==
    wsState = "CLOSED"
        => \A c \in Ids : InFlight(atClose, c)
              => /\ conn[c].sh \in {atClose[c].sh, "denied"}
                 /\ stream # c

\* ------------------------------------------------------------------ C8
\* C8: a frame received after the session entered Closing starts no SSH dial,
\* triggers no window change and is written to no shell.
C8_TerminalAbsorbing ==
    \A i \in 1..Len(h) :
        h[i].late => /\ conn[i].st = "absent"
                     /\ \A k \in LogIdx : shellLog[k].frame # i

\* ------------------------------------------------------------------ C9
\* C9: a first frame that is not a Handshake never makes the handler fail and
\* never dials; when its handler returns it has closed the client with 1008.
C9_FirstFrameRejected ==
    (Len(h) >= 1 /\ ~IsHandshake(JSONParse(h[1].raw)))
        => /\ h[1].out # "threw"
           /\ conn[1].st = "absent"
           /\ (h[1].pc = "done" => h[1].call[1] = 1008)

\* ----------------------------------------------------------------- C10
\* The frames the first-frame branch parsed.
FirstParsed == {i \in 1..Len(h) : h[i].br = "first" /\ JSONParse(h[i].raw).ok}

BadToken(cfg) == TokenMissing(cfg) \/ ~JwtVerify(cfg.token)

C10_Inv ==
    \A i \in FirstParsed :
        LET cfg == JSONParse(h[i].raw)
        IN /\ (USE_AUTH /\ BadToken(cfg))
                => /\ conn[i].st = "absent"
                   /\ h[i].pc \in {"verify", "done"}
                   /\ (h[i].pc = "done" => /\ h[i].out = "jwt"
                                            /\ h[i].call = <<1008, "JWT invalid">>
                                            /\ wsState # "OPEN")
           /\ (~USE_AUTH /\ IsHandshake(cfg) /\ cfg.token = Undefined)
                => /\ h[i].out \in {"pending", "unknown", "denied", "dial"}
                   /\ (h[i].pc # "done" => h[i].pc = "read")

\* C10: with auth enforced a handshake whose token is missing or fails
\* verification is closed with 1008 "JWT invalid" and never reaches the target
\* lookup or a dial; with auth disabled a handshake without token goes on to the
\* target lookup; the mode never changes.
C10_TokenEnforcement == C10_Inv /\ [][C10_Inv' /\ USE_AUTH' = USE_AUTH]_vars

\* With auth enforced, a handshake with a forged token was rejected after
\* verification and one without token was rejected at once.
C10_Witness ==
    /\ USE_AUTH
    /\ \E i \in FirstParsed : h[i].raw = FHsT1BadTok /\ h[i].out = "jwt"
    /\ \E i \in FirstParsed : h[i].raw = FHsT1NoTok /\ h[i].out = "jwt"

\* With auth disabled a handshake without token went on to the lookup and dialed.
C10_ReachedDisabled ==
    ~USE_AUTH /\ \E i \in FirstParsed : h[i].raw = FHsT1NoTok /\ h[i].out = "dial"

\* ------------------------------------------------------------------ C11
\* A first-branch frame whose handler got as far as the target lookup.
ReachedLookup(i) ==
    /\ h[i].br = "first"
    /\ h[i].pc = "done"
    /\ JSONParse(h[i].raw).ok
    /\ JSONParse(h[i].raw).kind = "object"
    /\ AuthEnforced => ~BadToken(JSONParse(h[i].raw))
    /\ ~ReadThrows

\* The handshakes whose serverId matches no target of the list read for them.
UnknownHs ==
    {i \in 1..Len(h) : /\ ReachedLookup(i)
                       /\ IsHandshake(JSONParse(h[i].raw))
                       /\ \A k \in 1..Len(ReadServers) :
                              ReadServers[k].id # JSONParse(h[i].raw).serverId}

\* C11: a handshake whose serverId matches no target of the store closes the
\* client with 1008 "Server necunoscut", and no SSH dial is attempted for that
\* session.
C11_UnknownTarget ==
    \A i \in UnknownHs :
        /\ h[i].call = <<1008, "Server necunoscut">>
        /\ wsState # "OPEN"
        /\ Opened = {}

\* The part of C11 that is about the handshake itself: it makes the 1008 call
\* and creates no SSH client of its own.
C11_NoDialByHandshake ==
    \A i \in UnknownHs :
        /\ h[i].call = <<1008, "Server necunoscut">>
        /\ wsState # "OPEN"
        /\ conn[i].st = "absent"

\* ------------------------------------------------------------------ C12
\* The host of the target a handshake names, "" when it names none.
TargetHost(i) ==
    LET k == FindSrv(ReadServers, JSONParse(h[i].raw))
    IN IF k = 0 THEN "" ELSE ReadServers[k].host

\* C12: with an empty allow-list every target host may be dialed; with a
\* non-empty one a dial is started only for a target whose host equals an entry
\* of the list, and a handshake for any other host is closed with 1008 and
\* dials nothing.
C12_HostAdmission ==
    \A i \in 1..Len(h) :
        /\ (i \in Opened /\ ALLOWED # {}) => TargetHost(i) \in ALLOWED
        /\ (ReachedLookup(i) /\ TargetHost(i) # "")
             => IF ALLOWED = {} \/ TargetHost(i) \in ALLOWED
                THEN h[i].out = "dial" /\ i \in Opened
                ELSE /\ h[i].out = "denied"
                     /\ h[i].call[1] = 1008
                     /\ wsState # "OPEN"
                     /\ i \notin Opened

\* Under the allow-list {HostA} a handshake for the target on HostB was turned
\* away and one for the target on HostA was dialed.
C12_Witness ==
    /\ ALLOWED = {HostA}
    /\ \E i \in 1..Len(h) : TargetHost(i) = HostB /\ h[i].out = "denied"
    /\ \E i \in 1..Len(h) : TargetHost(i) = HostA /\ i \in Opened

\* ------------------------------------------------------------------ C13
\* The calls frame i caused on shell streams.
CallsOf(i) == {k \in LogIdx : shellLog[k].frame = i}

\* The frames received in Ready that are resize frames, with (WellFormed) or
\* without rows and cols.
ResizeInReady(wellFormed) ==
    {i \in 1..Len(h) : /\ h[i].br = "ready"
                       /\ IsResizeFrame(JSONParse(h[i].raw))
                       /\ JSONParse(h[i].raw).hasDims = wellFormed}

\* C13: in Ready a resize frame with rows and cols causes exactly one call on
\* the shell stream, setWindow(rows, cols, cols*8, rows*16), and no write.
C13_ResizeWindowChange ==
    \A i \in ResizeInReady(TRUE) :
        /\ Cardinality(CallsOf(i)) = 1
        /\ \A k \in CallsOf(i) :
              /\ shellLog[k].op = "setWindow"
              /\ shellLog[k].on # 0
              /\ shellLog[k].data = <<JSONParse(h[i].raw).rows,
                                      JSONParse(h[i].raw).cols,
                                      JSONParse(h[i].raw).cols * 8,
                                      JSONParse(h[i].raw).rows * 16>>

\* The frame {"type":"resize","rows":50,"cols":200} was received in Ready and
\* the shell stream got setWindow(50, 200, 1600, 800).
C13_Witness ==
    \E i \in ResizeInReady(TRUE) :
        /\ h[i].raw = FResize
        /\ \E k \in CallsOf(i) : shellLog[k].data = <<50, 200, 1600, 800>>

\* ------------------------------------------------------------------ C14
\* C14: a resize frame without rows and cols received in Ready issues no
\* window change and is written to the shell as input.
C14_MalformedResizeIsInput ==
    \A i \in ResizeInReady(FALSE) :
        /\ Written(i)
        /\ \A k \in CallsOf(i) : shellLog[k].op # "setWindow"

\* ------------------------------------------------------------------ C15
WsIdx == 1..Len(wsOut)

\* C15: the calls on the shell stream are made in the order the frames were
\* received, and the output chunks are sent to the client in the order the
\* shell emitted them.
C15_SameDirectionOrder ==
    /\ \A k1, k2 \in LogIdx :
          k1 < k2 => shellLog[k1].frame < shellLog[k2].frame
    /\ \A k1, k2 \in WsIdx :
          (k1 < k2 /\ wsOut[k1].kind = "data" /\ wsOut[k2].kind = "data")
             => wsOut[k1].id < wsOut[k2].id

\* A resize was applied ahead of the input frame that followed it, and two
\* output chunks were sent.
C15_Witness ==
    /\ Len(shellLog) = 2
    /\ shellLog[1].op = "setWindow"
    /\ shellLog[2].op = "write"
    /\ Cardinality({k \in WsIdx : wsOut[k].kind = "data"}) = 2

\* ------------------------------------------------------------------ C16
\* The diagnostic lines sent on account of SSH client c.
ErrLinesOf(c) == {k \in WsIdx : wsOut[k].kind = "err" /\ wsOut[k].id = c}

\* The diagnostic lines that went out on an open socket: those the client gets.
ErrLinesDelivered == {k \in WsIdx : wsOut[k].kind = "err" /\ wsOut[k].st = "OPEN"}

\* C16: every SSH client error makes one attempt to send the line
\* "\r\n[SSH ERROR] <message>\r\n" and leaves the client transport closing or
\* closed, whether or not the line could be sent; the client gets at most one
\* such line per session.
C16_ErrorLine ==
    /\ \A c \in Ids :
          conn[c].st = "error"
             => /\ Cardinality(ErrLinesOf(c)) = 1
                /\ \A k \in ErrLinesOf(c) :
                      wsOut[k].line = <<"\r\n[SSH ERROR] ", "e", "\r\n">>
                /\ wsState # "OPEN"
    /\ Cardinality(ErrLinesDelivered) <= 1

\* Two SSH clients of one session failed: the first line went out, the second
\* was attempted on a socket that was no longer open.
C16_Witness ==
    /\ Cardinality({c \in Ids : conn[c].st = "error"}) = 2
    /\ Cardinality(ErrLinesDelivered) = 1
    /\ \E k \in WsIdx : wsOut[k].kind = "err" /\ wsOut[k].st # "OPEN"

\* ------------------------------------------------------------------ C17
\* C17: when the shell request of a ready SSH client is denied the client
\* transport is closed, the session never has a shell stream or sends shell
\* output, and once the transport is closed the SSH connection has been ended.
C17_PtyDenied ==
    \A c \in Ids :
        conn[c].sh = "denied"
           => /\ wsState # "OPEN"
              /\ stream = 0
              /\ DataSent = {}
              /\ wsState = "CLOSED" => \A d \in Opened : conn[d].ended \/ conn[d].st = "error"

\* ------------------------------------------------------------------ C18
\* C18: at most one shell-output message is queued on the client socket and
\* not yet flushed.
C18_BoundedInFlight == wsBuffered <= 1

\* ------------------------------------------------------------------ C19
\* C19: when servers.json cannot be read or does not hold JSON, a handshake
\* is rejected as unknown target, 1008 "Server necunoscut".
C19_ReadFailureIsEmptyList ==
    \A i \in 1..Len(h) :
        ( /\ storeFile # "ok"
          /\ h[i].br = "first"
          /\ h[i].pc = "done"
          /\ IsHandshake(JSONParse(h[i].raw))
          /\ AuthEnforced => ~BadToken(JSONParse(h[i].raw)) )
           => /\ h[i].out = "unknown"
              /\ h[i].call = <<1008, "Server necunoscut">>

\* The half of C19 that is about content that is not JSON.
C19_NonJsonIsEmptyList == storeFile = "nonjson" => C19_ReadFailureIsEmptyList

\* ------------------------------------------------ CRUD on servers.json
\* Ports: a number, 0 for null, -1 for a property that is absent. Strings: ""
\* for a property that is absent.
MaxOps == 3     \* CRUD operations started

sessionVars == <<USE_AUTH, ALLOWED, ssh, stream, alive, wsState, closeInfo,
                 h, conn, shellLog, wsOut, nData, wsBuffered, atClose>>

\* Math.random().toString(36).slice(2, 10) / nanoid(): an id not used before.
NewIds == <<"n1", "n2", "n3", "n4">>

\* Request bodies of POST /api/servers and inputs of addServer.
NewBodies ==
    {[id |-> "", host |-> hh, username |-> "ada", port |-> p] :
        hh \in {HostA, HostB}, p \in {-1, 22, 70000}}

\* Request bodies of PUT /api/servers/:id and inputs of updateServer.
PatchBodies ==
    {[id |-> "", host |-> HostA, username |-> "", port |-> -1],
     [id |-> "", host |-> HostB, username |-> "", port |-> -1],
     [id |-> "", host |-> "", username |-> "", port |-> 0],
     [id |-> "", host |-> "", username |-> "", port |-> 2222],
     [id |-> "t1", host |-> HostA, username |-> "", port |-> -1]}

NoBody == [id |-> "", host |-> "", username |-> "", port |-> -1]

\* x ?? 22
OrDefault22(p) == IF p = 0 \/ p = -1 THEN 22 ELSE p

\* validateServerPayload(body, { partial }) returns (TRUE) or throws (FALSE).
validateServerPayload(body, partial) ==
    /\ partial \/ (body.host # "" /\ body.username # "")
    /\ (body.port # 0 /\ body.port # -1) => (body.port >= 1 /\ body.port <= 65535)

\* { ...old, ...body }
Merged(old, body) ==
    [id |-> IF body.id = "" THEN old.id ELSE body.id,
     host |-> IF body.host = "" THEN old.host ELSE body.host,
     username |-> IF body.username = "" THEN old.username ELSE body.username,
     port |-> IF body.port = -1 THEN old.port ELSE body.port]

\* list.findIndex(s => s.id === id), 0 for -1
FindIndex(list, id) ==
    LET m == {k \in 1..Len(list) : list[k].id = id}
    IN IF m = {} THEN 0 ELSE CHOOSE k \in m : \A j \in m : k <= j

\* list.splice(idx, 1)
Splice(list, idx) == [k \in 1..(Len(list) - 1) |-> IF k < idx THEN list[k] ELSE list[k + 1]]

\* The check of POST /api/servers.
PostConflict(list, server) ==
    \E k \in 1..Len(list) :
        /\ list[k].host = server.host
        /\ list[k].username = server.username
        /\ OrDefault22(list[k].port) = OrDefault22(server.port)

\* The check of PUT /api/servers/:id.
PutConflict(list, merged) ==
    \E k \in 1..Len(list) :
        /\ list[k].id # merged.id
        /\ list[k].host = merged.host
        /\ list[k].username = merged.username
        /\ OrDefault22(list[k].port) = OrDefault22(merged.port)

\* The check of addServer.
AddConflict(data, server) ==
    \E k \in 1..Len(data) :
        /\ data[k].host = server.host
        /\ data[k].username = server.username
        /\ data[k].port = server.port

\* NewServerSchema.parse / ServerSchema.parse on the port: a number in range,
\* or absent.
SchemaPortOk(p) == p = -1 \/ (p >= 1 /\ p <= 65535)

\* servers.json.tmp does not exist.
NoTmp == [exists |-> FALSE, full |-> FALSE, list |-> << >>]

\* The outcome of an operation as its caller sees it.
Outcome(op, id, rec, ok) == [op |-> op, id |-> id, rec |-> rec, ok |-> ok]

\* An operation in flight: the list it will write, the record it will answer
\* with, where it stands (queued, open, data, rename) and the file its
\* descriptor refers to (none, tmp, store, orphan).
Request(via, op, id, body, rec, list, pc) ==
    [via |-> via, op |-> op, id |-> id, body |-> body, rec |-> rec, list |-> list,
     pc |-> pc, fd |-> "none"]

Without(rq, j) == [k \in 1..(Len(rq) - 1) |-> IF k < j THEN rq[k] ELSE rq[k + 1]]

\* A REST handler answers 4xx without writing.
Answer(op, id) ==
    /\ nOps' = nOps + 1
    /\ answered' = Append(answered, Outcome(op, id, NoBody, FALSE))
    /\ UNCHANGED <<store, storeFile, tmpFile, reqs>>

\* A REST handler goes on to `await writeServersAtomic(list)`.
GoWrite(op, id, rec, list) ==
    /\ nOps' = nOps + 1
    /\ reqs' = Append(reqs, Request("rest", op, id, NoBody, rec, list, "open"))
    /\ UNCHANGED <<store, storeFile, tmpFile, answered>>

\* app.post('/api/servers'), up to `await writeServersAtomic`.
PostServer(body) ==
    /\ nOps < MaxOps
    /\ LET list == ReadServers
           server == [id |-> NewIds[nOps + 1], host |-> body.host,
                      username |-> body.username, port |-> OrDefault22(body.port)]
       IN IF ~validateServerPayload(body, FALSE) \/ PostConflict(list, server)
          THEN Answer("post", server.id)
          ELSE GoWrite("post", server.id, server, Append(list, server))
    /\ UNCHANGED sessionVars

\* app.put('/api/servers/:id'), up to `await writeServersAtomic`.
PutServer(id, body) ==
    /\ nOps < MaxOps
    /\ LET list == ReadServers
           idx == FindIndex(list, id)
       IN IF ~validateServerPayload(body, TRUE) \/ idx = 0
          THEN Answer("put", id)
          ELSE IF PutConflict(list, Merged(list[idx], body))
          THEN Answer("put", id)
          ELSE GoWrite("put", id, Merged(list[idx], body),
                       [list EXCEPT ![idx] = Merged(list[idx], body)])
    /\ UNCHANGED sessionVars

\* app.delete('/api/servers/:id'), up to `await writeServersAtomic`.
DeleteServerRest(id) ==
    /\ nOps < MaxOps
    /\ LET list == ReadServers
           idx == FindIndex(list, id)
       IN IF idx = 0
          THEN Answer("delete", id)
          ELSE GoWrite("delete", id, list[idx], Splice(list, idx))
    /\ UNCHANGED sessionVars

\* withLock(fn), called by addServer / updateServer / deleteServer: fn is
\* chained on queue.
withLock(op, id, input) ==
    /\ nOps < MaxOps
    /\ nOps' = nOps + 1
    /\ reqs' = Append(reqs, Request("store", op, IF op = "add" THEN NewIds[nOps + 1] ELSE id,
                                    input, NoBody, << >>, "queued"))
    /\ UNCHANGED <<store, storeFile, tmpFile, answered>>
    /\ UNCHANGED sessionVars

\* A lock that lets every queued fn start at once.
MayStartAny(j) == TRUE

\* run = queue.then(fn, fn); queue = run.catch(() => {}): fn starts when every
\* fn chained before it has settled, whether it returned or threw.
MayStart(j) == \A k \in 1..(j - 1) : reqs[k].via # "store"

\* fn of a store.js operation throws: the promise withLock returned rejects.
Throw(j) ==
    /\ reqs' = Without(reqs, j)
    /\ answered' = Append(answered, Outcome(reqs[j].op, reqs[j].id, NoBody, FALSE))
    /\ UNCHANGED <<store, storeFile, tmpFile, nOps>>

\* fn of a store.js operation goes on to `await writeJSONAtomic(list)`.
GoWriteJSON(j, rec, list) ==
    /\ reqs' = [reqs EXCEPT ![j].pc = "open", ![j].rec = rec, ![j].list = list]
    /\ UNCHANGED <<store, storeFile, tmpFile, nOps, answered>>

\* The fn of addServer(input), up to `await writeJSONAtomic`.
addServer(j) ==
    /\ j \in 1..Len(reqs)
    /\ reqs[j].pc = "queued" /\ reqs[j].op = "add"
    /\ MayStart(j)
    /\ LET data == ReadServers
           input == reqs[j].body
           server == [id |-> reqs[j].id, host |-> input.host,
                      username |-> input.username,
                      port |-> IF input.port = -1 THEN 22 ELSE input.port]
       IN IF ~SchemaPortOk(input.port) \/ AddConflict(data, server)
          THEN Throw(j)
          ELSE GoWriteJSON(j, server, Append(data, server))
    /\ UNCHANGED sessionVars

\* The fn of updateServer(id, input), up to `await writeJSONAtomic`.
updateServer(j) ==
    /\ j \in 1..Len(reqs)
    /\ reqs[j].pc = "queued" /\ reqs[j].op = "update"
    /\ MayStart(j)
    /\ LET data == ReadServers
           idx == FindIndex(data, reqs[j].id)
       IN IF idx = 0
          THEN Throw(j)
          ELSE IF ~SchemaPortOk(Merged(data[idx], reqs[j].body).port)
          THEN Throw(j)
          ELSE GoWriteJSON(j, Merged(data[idx], reqs[j].body),
                           [data EXCEPT ![idx] = Merged(data[idx], reqs[j].body)])
    /\ UNCHANGED sessionVars

\* The fn of deleteServer(id), up to `await writeJSONAtomic`.
deleteServer(j) ==
    /\ j \in 1..Len(reqs)
    /\ reqs[j].pc = "queued" /\ reqs[j].op = "remove"
    /\ MayStart(j)
    /\ LET data == ReadServers
           idx == FindIndex(data, reqs[j].id)
       IN IF idx = 0
          THEN Throw(j)
          ELSE GoWriteJSON(j, data[idx], Splice(data, idx))
    /\ UNCHANGED sessionVars

\* fs.writeFile(tmp, ...), first half: tmp is opened for writing, which
\* creates it or empties the file that is there.
WriteOpen(j) ==
    /\ j \in 1..Len(reqs)
    /\ reqs[j].pc = "open"
    /\ tmpFile' = [exists |-> TRUE, full |-> FALSE, list |-> << >>]
    /\ reqs' = [reqs EXCEPT ![j].pc = "data", ![j].fd = "tmp"]
    /\ UNCHANGED <<store, storeFile, nOps, answered>>
    /\ UNCHANGED sessionVars

\* fs.writeFile(tmp, ...), second half: the list goes into the file the
\* descriptor refers to, whatever name that file has by now.
WriteData(j) ==
    /\ j \in 1..Len(reqs)
    /\ reqs[j].pc = "data"
    /\ reqs' = [reqs EXCEPT ![j].pc = "rename"]
    /\ IF reqs[j].fd = "tmp"
       THEN /\ tmpFile' = [exists |-> TRUE, full |-> TRUE, list |-> reqs[j].list]
            /\ UNCHANGED <<store, storeFile>>
       ELSE IF reqs[j].fd = "store"
       THEN /\ store' = reqs[j].list
            /\ storeFile' = "ok"
            /\ UNCHANGED tmpFile
       ELSE UNCHANGED <<store, storeFile, tmpFile>>
    /\ UNCHANGED <<nOps, answered>>
    /\ UNCHANGED sessionVars

\* The descriptors after tmp was renamed over servers.json.
AfterRename(rq) ==
    [k \in 1..Len(rq) |->
        [rq[k] EXCEPT !.fd = IF rq[k].fd = "tmp" THEN "store"
                             ELSE IF rq[k].fd = "store" THEN "orphan"
                             ELSE rq[k].fd]]

\* fs.rename(tmp, SERVERS_PATH): puts whatever tmp holds in place, or fails
\* when tmp is gone; then the operation answers.
WriteRename(j) ==
    /\ j \in 1..Len(reqs)
    /\ reqs[j].pc = "rename"
    /\ IF tmpFile.exists
       THEN /\ store' = tmpFile.list
            /\ storeFile' = IF tmpFile.full THEN "ok" ELSE "empty"
            /\ tmpFile' = NoTmp
            /\ reqs' = AfterRename(Without(reqs, j))
            /\ answered' = Append(answered,
                                  Outcome(reqs[j].op, reqs[j].id, reqs[j].rec, TRUE))
       ELSE /\ reqs' = Without(reqs, j)
            /\ answered' = Append(answered,
                                  Outcome(reqs[j].op, reqs[j].id, NoBody, FALSE))
            /\ UNCHANGED <<store, storeFile, tmpFile>>
    /\ UNCHANGED nOps
    /\ UNCHANGED sessionVars

TargetIds == {"t1", "t2", "n1"}

OpIds == 1..MaxOps

InitStore ==
    /\ USE_AUTH = TRUE
    /\ ALLOWED = {}
    /\ store \in Stores
    /\ storeFile = "ok"
    /\ InitSession

\* The REST handlers of src/server.js.
NextRest ==
    \/ \E body \in NewBodies : PostServer(body)
    \/ \E id \in TargetIds, body \in PatchBodies : PutServer(id, body)
    \/ \E id \in TargetIds : DeleteServerRest(id)
    \/ \E j \in OpIds : WriteOpen(j)
    \/ \E j \in OpIds : WriteData(j)
    \/ \E j \in OpIds : WriteRename(j)

\* The operations of src/store.js.
NextModule ==
    \/ \E input \in NewBodies : withLock("add", "", input)
    \/ \E id \in TargetIds, input \in PatchBodies : withLock("update", id, input)
    \/ \E id \in TargetIds : withLock("remove", id, NoBody)
    \/ \E j \in OpIds : addServer(j)
    \/ \E j \in OpIds : updateServer(j)
    \/ \E j \in OpIds : deleteServer(j)
    \/ \E j \in OpIds : WriteOpen(j)
    \/ \E j \in OpIds : WriteData(j)
    \/ \E j \in OpIds : WriteRename(j)

SpecRest == InitStore /\ [][NextRest]_vars

SpecModule == InitStore /\ [][NextModule]_vars

\* ------------------------------------------------------------------ C20
\* (host, username, port), the port defaulting to 22
Triple(s) == <<s.host, s.username, OrDefault22(s.port)>>

\* C20: no two targets in the store have the same (host, username, port).
C20_StoreUnique ==
    \A j, k \in 1..Len(store) : j # k => Triple(store[j]) # Triple(store[k])

\* ------------------------------------------------------------------ C21
\* The SSH clients whose 'ready' handler has run.
ShellRequested == {c \in Ids : conn[c].sh # "none"}

C21_Inv ==
    \A c \in Ids :
        IF c \in ShellRequested
        THEN LET cfg == JSONParse(h[c].raw)
             IN /\ conn[c].shArgs.term = "xterm-256color"
                /\ conn[c].shArgs.cols = (IF cfg.cols = 0 \/ cfg.cols = -1 THEN 80 ELSE cfg.cols)
                /\ conn[c].shArgs.rows = (IF cfg.rows = 0 \/ cfg.rows = -1 THEN 24 ELSE cfg.rows)
        ELSE conn[c].shArgs = NoArgs

\* C21: the 'ready' handler of an SSH client requests one shell, terminal
\* xterm-256color, with the cols and rows of the handshake that created the
\* client, a zero or absent cols giving 80 and a zero or absent rows giving 24,
\* each on its own; the request is made once and never changes.
C21_ShellRequest ==
    /\ C21_Inv
    /\ [][/\ C21_Inv'
          /\ \A c \in ShellRequested : conn'[c].shArgs = conn[c].shArgs]_vars

\* A handshake with cols 0, rows 40 led to a shell request for 80 x 40.
C21_Witness ==
    \E c \in ShellRequested :
        /\ h[c].raw = FHsZeroCols
        /\ conn[c].shArgs = [term |-> "xterm-256color", cols |-> 80, rows |-> 40]

\* A handshake with cols 120 and no rows led to a shell request for 120 x 24.
C21_WitnessNoRows ==
    \E c \in ShellRequested :
        /\ h[c].raw = FHsNoRows
        /\ conn[c].shArgs = [term |-> "xterm-256color", cols |-> 120, rows |-> 24]

\* ------------------------------------------------------------------ C22
\* C22: servers.json always holds the complete list of one write call; a
\* reader never finds it empty or cut short.
C22_AtomicPublication == storeFile = "ok"

\* ------------------------------------------------------------------ C24
\* The outcomes that stand for a target: a create or an update that succeeded.
Stands == {n \in 1..Len(answered) :
              answered[n].ok /\ answered[n].op \in {"post", "put", "add", "update"}}

\* A later operation on the id the record carries has succeeded.
Superseded(n) ==
    \E m \in (n + 1)..Len(answered) :
        answered[m].ok /\ answered[m].id = answered[n].rec.id

\* The record of outcome n is in the store.
Kept(n) == \E k \in 1..Len(store) : store[k] = answered[n].rec

\* The store.js operations in flight, in call order.
StoreOps == {j \in 1..Len(reqs) : reqs[j].via = "store"}

\* C24: of the store.js operations in flight only the one called first has
\* started, the others wait, and the first one that waits can start; every
\* mutation that succeeded is in the store until a later operation on its id
\* succeeds.
C24_WithLockSerializes ==
    /\ \A j, k \in StoreOps : j < k => reqs[k].pc = "queued"
    /\ \A j \in StoreOps :
          (reqs[j].pc = "queued" /\ \A k \in StoreOps : j <= k) => MayStart(j)
    /\ \A n \in Stands : Superseded(n) \/ Kept(n)
    /\ storeFile = "ok"

\* An operation threw, and operations called while an earlier one was in
\* flight ran after it and succeeded.
C24_Witness ==
    /\ Len(answered) = 3
    /\ ~answered[1].ok
    /\ answered[2].ok /\ answered[2].op = "add"
    /\ answered[3].ok /\ answered[3].op = "update"
    /\ 2 \in Stands /\ Kept(2)

\* ------------------------------------------------------------------ C25
\* C25: every target whose POST was answered 201 and every update answered
\* 200 is in the store until a later update or delete of that id succeeds.
C25_NoLostUpdate ==
    \A n \in Stands :
        answered[n].op \in {"post", "put"} => (Superseded(n) \/ Kept(n))

\* ------------------------------------------------------------------ C23
\* The first-branch frames without a valid token whose handler has returned.
BadTokenDone ==
    {i \in FirstParsed : BadToken(JSONParse(h[i].raw)) /\ h[i].pc = "done"}

\* What the client can tell of the handling of frame i.
Observed(i) == [call |-> h[i].call, dialed |-> conn[i].st # "absent"]

C23_Inv ==
    USE_AUTH =>
        /\ \A i, j \in BadTokenDone : Observed(i) = Observed(j)
        /\ \A i \in BadTokenDone :
              Observed(i) = [call |-> <<1008, "JWT invalid">>, dialed |-> FALSE]
        /\ \A i \in FirstParsed :
              BadToken(JSONParse(h[i].raw)) => h[i].pc # "read"

\* C23: with auth enforced, handshakes without a valid token are all answered
\* alike, ws.close(1008, "JWT invalid") and no dial, whatever target they name
\* and whatever the store and the allow-list hold, and their handlers never
\* get to read the store.
C23_TokenBeforeTarget == C23_Inv /\ [][C23_Inv']_vars

\* Under the allow-list {HostA}, a forged-token handshake for the target on
\* HostB and a token-less one for an unknown id were answered alike.
C23_Witness ==
    /\ ALLOWED = {HostA}
    /\ Len(store) = 2
    /\ \E i, j \in BadTokenDone :
          /\ h[i].raw = FHsT2BadTok
          /\ h[j].raw = FHsMissingNoTok
          /\ Observed(i) = Observed(j)

====
